---- MODULE Spec2Model ----
(***************************************************************************)
(* Model of the Power BI custom bar chart visual (src/src/visual.ts):      *)
(* the data transformation visualTransform / getOptionValue and the        *)
(* Visual class (constructor, update, the click handler with its           *)
(* asynchronous selection continuation, enumerateObjectInstances).         *)
(*                                                                         *)
(* JavaScript values are tagged records: the field t is the runtime type,  *)
(* so that `undefined`, booleans, numbers, strings, arrays and objects can *)
(* be told apart exactly as the code's truthiness tests and `!= undefined` *)
(* comparisons tell them apart.                                            *)
(***************************************************************************)
EXTENDS Integers, Sequences, FiniteSets, TLC

VARIABLES
    options,          \* argument of the last visualTransform / update call
    transformedData,  \* what that call's visualTransform produced
    chartSettings,    \* Visual.chartSettings
    svg,              \* width / height attributes of the <svg> element
    xAxis,            \* the <g class="xAxis"> element: style, transform, ticks
    bars,             \* <rect class="bar"> children of barContainer, DOM order
    selected,         \* the host selection manager's selected identities
    pending,          \* select() promises not yet resolved, in request order
    viewModel,        \* the view model the last completed update rendered
    lastCall,         \* name of the handler that ran last
    returned,         \* what that handler returned
    raised            \* TRUE iff that handler ended in a TypeError

vars == <<options, transformedData, chartSettings, svg, xAxis, bars,
          selected, pending, viewModel, lastCall, returned, raised>>

visualVars == <<chartSettings, svg, xAxis, bars, selected, pending,
                viewModel, lastCall, returned, raised>>

---------------------------------------------------------------------------
(* Bounds of the model *)

\* longest category / value column the host supplies
MaxLen == 2

\* most select() promises in flight at once, with updates and the property
\* pane's queries in between
MaxPending == 1

\* most select() promises in flight at once in a burst of clicks
MaxBurst == 2

---------------------------------------------------------------------------
(* JavaScript values *)

Undefined == [t |-> "undefined"]
Null == [t |-> "null"]
Bool(b) == [t |-> "boolean", v |-> b]
Num(n) == [t |-> "number", v |-> n]
Str(s) == [t |-> "string", v |-> s]
Arr(a) == [t |-> "array", a |-> a]
NaN == [t |-> "NaN"]

\* the error every property read on `undefined` raises
TypeError == [t |-> "TypeError"]

\* JavaScript ToBoolean: what `if (x)` and `!x` test
Truthy(x) ==
    CASE x.t = "undefined" -> FALSE
      [] x.t = "null" -> FALSE
      [] x.t = "NaN" -> FALSE
      [] x.t = "boolean" -> x.v
      [] x.t = "number" -> x.v # 0
      [] x.t = "string" -> x.v # ""
      [] OTHER -> TRUE

\* obj[name] on an object: a property that is not there reads undefined
Get(obj, name) == IF name \in DOMAIN obj THEN obj[name] ELSE Undefined

\* arr[i] with a 0-based index: past the end reads undefined
At(arr, i) == IF (i + 1) \in DOMAIN arr.a THEN arr.a[i + 1] ELSE Undefined

\* x != undefined (loose inequality: null equals undefined, nothing else does)
LooseNotUndefined(x) == x.t \notin {"undefined", "null"}

Max(a, b) == IF a >= b THEN a ELSE b
Min(a, b) == IF a <= b THEN a ELSE b

---------------------------------------------------------------------------
(* Host services used by visualTransform *)

\* host.colorPalette.getColor(key).value: one colour per key, stable per key
getColor(key) ==
    CASE key = Str("A") -> Str("#01B8AA")
      [] key = Str("B") -> Str("#374649")
      [] OTHER -> Str("#FD625E")

\* host.createSelectionIdBuilder().withCategory(category, i).createSelectionId()
createSelectionId(i) == [t |-> "selectionId", row |-> i]

---------------------------------------------------------------------------
(* getOptionValue and visualTransform *)

\* getOptionValue without the `property != undefined` test
getOptionValue_NoDefault(objects, objectName, propertyName, defaultValue) ==
    IF Truthy(objects)
    THEN LET object == Get(objects, objectName)
         IN  IF Truthy(object) THEN Get(object, propertyName) ELSE defaultValue
    ELSE defaultValue

getOptionValue(objects, objectName, propertyName, defaultValue) ==
    IF Truthy(objects)
    THEN LET object == Get(objects, objectName)
         IN  IF Truthy(object)
             THEN LET property == Get(object, propertyName)
                  IN  IF LooseNotUndefined(property) THEN property ELSE defaultValue
             ELSE defaultValue
    ELSE defaultValue

defaultSettings == [enableAxis |-> [show |-> Bool(FALSE)]]

\* the view model returned when the data is absent
dataInfo ==
    [t |-> "object", dataPoints |-> <<>>, dataMax |-> Num(0),
     settings |-> defaultSettings]

\* the loop bounded by the category column alone
dataPointsOf_CategoryLength(category, dataValue) ==
    [k \in 1..Len(category.values.a) |->
        [category |-> At(category.values, k - 1),
         value |-> At(dataValue.values, k - 1),
         color |-> getColor(At(category.values, k - 1)),
         selectionID |-> createSelectionId(k - 1)]]

\* the loop of visualTransform: one data point per index below len
dataPointsOf(category, dataValue) ==
    LET len == Max(Len(category.values.a), Len(dataValue.values.a))
    IN  [k \in 1..len |->
            LET i == k - 1
            IN  [category |-> At(category.values, i),
                 value |-> At(dataValue.values, i),
                 color |-> getColor(At(category.values, i)),
                 selectionID |-> createSelectionId(i)]]

RECURSIVE MaxOfValues(_)
MaxOfValues(a) ==
    IF a = <<>> THEN 0 ELSE Max(a[1].v, MaxOfValues(Tail(a)))

\* dataMax recomputed from the column's values
dataMaxOf_Recomputed(dataValue) == Num(MaxOfValues(dataValue.values.a))

\* dataMax = <number>dataValue.maxLocal
dataMaxOf(dataValue) == Get(dataValue, "maxLocal")

visualTransform(opts) ==
    LET dataViews == opts.dataViews
    IN
    IF ~Truthy(dataViews) THEN dataInfo
    ELSE IF ~Truthy(At(dataViews, 0)) THEN dataInfo
    ELSE IF ~Truthy(At(dataViews, 0).categorical) THEN dataInfo
    ELSE IF ~Truthy(At(dataViews, 0).categorical.categories) THEN dataInfo
    \* categories[0].source reads a property of undefined when the list is empty
    ELSE IF At(At(dataViews, 0).categorical.categories, 0) = Undefined THEN TypeError
    ELSE IF ~Truthy(At(At(dataViews, 0).categorical.categories, 0).source) THEN dataInfo
    ELSE IF ~Truthy(At(dataViews, 0).categorical.values) THEN dataInfo
    ELSE
        LET categorical == At(dataViews, 0).categorical
            category == At(categorical.categories, 0)
            dataValue == At(categorical.values, 0)
        IN
        \* dataViews[0].metadata.objects
        IF At(dataViews, 0).metadata = Undefined THEN TypeError
        \* dataValue.values.length reads a property of undefined
        ELSE IF dataValue = Undefined THEN TypeError
        ELSE
            LET objects == At(dataViews, 0).metadata.objects
                barchartSettings ==
                    [enableAxis |->
                        [show |-> getOptionValue(objects, "enableAxis", "show",
                                                 defaultSettings.enableAxis.show)]]
            IN  [t |-> "object",
                 dataPoints |-> dataPointsOf(category, dataValue),
                 dataMax |-> dataMaxOf(dataValue),
                 settings |-> barchartSettings]

---------------------------------------------------------------------------
(* What the host can hand to update: VisualUpdateOptions *)

SeqUpTo(S, n) == UNION {[1..k -> S] : k \in 0..n}

CategoryLabels == {Str("A"), Str("B")}
ValueNumbers == {Num(1), Num(2)}

\* values of the value column's maxLocal field, including a stale maximum
\* the column never reaches and a maximum below the column's values
MaxLocals == {Num(1), Num(3)}

\* metadata.objects as the property pane leaves it
ObjectsVariants ==
    {Undefined,
     [t |-> "object"],
     [t |-> "object", enableAxis |-> [t |-> "object"]],
     [t |-> "object", enableAxis |-> [t |-> "object", show |-> Undefined]],
     [t |-> "object", enableAxis |-> [t |-> "object", show |-> Bool(TRUE)]],
     [t |-> "object", enableAxis |-> [t |-> "object", show |-> Bool(FALSE)]],
     [t |-> "object", enableAxis |-> [t |-> "object", show |-> Str("yes")]],
     [t |-> "object", enableAxis |-> [t |-> "object", show |-> Num(1)]]}

\* the structural piece an incomplete data view lacks ("none": nothing)
Pieces ==
    {"none", "dataViews", "view", "categorical", "categories", "categoriesEmpty",
     "source", "values", "valuesEmpty"}

Viewports == {[width |-> 400, height |-> 300], [width |-> 200, height |-> 100]}

\* a VisualUpdateOptions whose data view lacks `missing`
MkOptions(missing, cats, vals, maxLocal, objects, viewport) ==
    LET categoryColumn ==
            [t |-> "object",
             source |-> IF missing = "source" THEN Undefined
                        ELSE [t |-> "object", displayName |-> Str("Country")],
             values |-> Arr(cats)]
        valueColumn ==
            [t |-> "object", values |-> Arr(vals), maxLocal |-> maxLocal]
        categorical ==
            [t |-> "object",
             categories |-> CASE missing = "categories" -> Undefined
                              [] missing = "categoriesEmpty" -> Arr(<<>>)
                              [] OTHER -> Arr(<<categoryColumn>>),
             values |-> CASE missing = "values" -> Undefined
                          [] missing = "valuesEmpty" -> Arr(<<>>)
                          [] OTHER -> Arr(<<valueColumn>>)]
        view ==
            [t |-> "object",
             categorical |-> IF missing = "categorical" THEN Undefined ELSE categorical,
             metadata |-> [t |-> "object", objects |-> objects]]
    IN  [t |-> "object",
         dataViews |-> CASE missing = "dataViews" -> Undefined
                         [] missing = "view" -> Arr(<<>>)
                         [] OTHER -> Arr(<<view>>),
         viewport |-> viewport]

\* every input the transformation is examined on
TransformInputs ==
    {MkOptions(m, c, v, mx, o, [width |-> 400, height |-> 300]) :
        m \in Pieces, c \in SeqUpTo(CategoryLabels, MaxLen),
        v \in SeqUpTo(ValueNumbers, MaxLen), mx \in MaxLocals,
        o \in ObjectsVariants}

---------------------------------------------------------------------------
(* The visual right after its constructor *)

NotCalled == [t |-> "notCalled"]

Constructed ==
    /\ chartSettings = Undefined
    /\ svg = [width |-> Undefined, height |-> Undefined]
    /\ xAxis = [fontSize |-> Undefined, transform |-> Undefined, ticks |-> <<>>]
    /\ bars = <<>>
    /\ selected = {}
    /\ pending = <<>>
    /\ viewModel = NotCalled
    /\ lastCall = "constructor"
    /\ returned = Undefined
    /\ raised = FALSE

---------------------------------------------------------------------------
(* SpecT: visualTransform as a pure function of its input *)

InitT ==
    /\ options \in TransformInputs
    /\ transformedData = NotCalled
    /\ Constructed

Transform ==
    /\ transformedData = NotCalled
    /\ transformedData' = visualTransform(options)
    /\ UNCHANGED <<options, visualVars>>

NextT == Transform

SpecT == InitT /\ [][NextT]_vars

---------------------------------------------------------------------------
(* Numbers on the drawing surface: exact fractions n/d in lowest terms *)

Abs(x) == IF x < 0 THEN -x ELSE x

RECURSIVE GCD(_, _)
GCD(a, b) == IF b = 0 THEN a ELSE GCD(b, a % b)

Q(n, d) ==
    LET g == GCD(Abs(n), Abs(d))
        sgn == IF d < 0 THEN -1 ELSE 1
    IN  [t |-> "number", n |-> (sgn * n) \div g, d |-> (sgn * d) \div g]

QSub(a, b) ==
    IF a.t # "number" \/ b.t # "number" THEN NaN
    ELSE Q(a.n * b.d - b.n * a.d, a.d * b.d)

Half == Q(1, 2)
One == Q(1, 1)

\* the space update keeps free below the bars for the axis
AxisReserve == 25

---------------------------------------------------------------------------
(* The two d3 scales update builds *)

\* d3.scale.linear().domain([0, dataMax]).range([height, 0]) applied to value
yScale(dataMax, height, value) ==
    IF value.t # "number" \/ dataMax.t # "number" THEN NaN
    ELSE IF dataMax.v = 0 THEN Q(height, 1)
    ELSE Q(height * (dataMax.v - value.v), dataMax.v)

\* the domain of d3.scale.ordinal(): the categories, first occurrences only
ordinalDomain(dataPoints) ==
    LET F[k \in 0..Len(dataPoints)] ==
            IF k = 0 THEN <<>>
            ELSE IF \E j \in 1..(k - 1) :
                        dataPoints[j].category = dataPoints[k].category
                 THEN F[k - 1]
                 ELSE Append(F[k - 1], dataPoints[k].category)
    IN  F[Len(dataPoints)]

IndexOf(seq, x) == CHOOSE k \in DOMAIN seq : seq[k] = x

\* rangeRoundBands([0, width], 0.1, 0.2) over n bands: step, first band, band width
bandStep(width, n) == (10 * width) \div (10 * n + 3)
bandStart(width, n) == (10 * width - (10 * n - 1) * bandStep(width, n) + 10) \div 20
rangeBand(width, n) == (9 * bandStep(width, n) + 5) \div 10

\* where the k-th band starts
bandOf(domain, width, k) ==
    bandStart(width, Len(domain)) + bandStep(width, Len(domain)) * (k - 1)

\* xScale(category): the start of the category's band, and undefined for a
\* value that is not in the domain
xScale(domain, width, category) ==
    IF \E k \in DOMAIN domain : domain[k] = category
    THEN Q(bandOf(domain, width, IndexOf(domain, category)), 1)
    ELSE Undefined

\* an axis group the axis generator was never called on
axisTicks_NotCalled(domain, width) == <<>>

\* what .call(xAxis) leaves in the axis group: one tick per domain entry, at the
\* middle of its band
axisTicks(domain, width) ==
    [k \in DOMAIN domain |->
        [label |-> domain[k],
         x |-> Q(2 * bandOf(domain, width, k) + rangeBand(width, Len(domain)), 2)]]

---------------------------------------------------------------------------
(* The bars: data join, attributes, removal *)

(* A bar element never changes its place among the bars: the join binds by   *)
(* position, new bars are appended and only trailing bars are removed. So a  *)
(* reference to a bar element that a continuation holds is modelled by the   *)
(* element's position, together with how many of the referenced elements are *)
(* still in the document.                                                    *)

\* a join that leaves the bars already there bound to their old data
dataJoin_EnterOnly(oldBars, dataPoints) ==
    [k \in DOMAIN dataPoints |->
        IF k <= Len(oldBars)
        THEN oldBars[k]
        ELSE [data |-> dataPoints[k],
              width |-> Undefined, height |-> Undefined,
              x |-> Undefined, y |-> Undefined,
              fill |-> Undefined, fillOpacity |-> Undefined]]

\* selectAll('.bar').data(dataPoints) followed by enter().append('rect'):
\* the bars already there take the new data by position, new ones are appended
dataJoin(oldBars, dataPoints) ==
    [k \in DOMAIN dataPoints |->
        IF k <= Len(oldBars)
        THEN [oldBars[k] EXCEPT !.data = dataPoints[k]]
        ELSE [data |-> dataPoints[k],
              width |-> Undefined, height |-> Undefined,
              x |-> Undefined, y |-> Undefined,
              fill |-> Undefined, fillOpacity |-> Undefined]]

\* bars.attr({width, height, x, y, fill}) on one bar
barAttr(bar, domain, dataMax, width, height) ==
    [bar EXCEPT
        !.width = Q(rangeBand(width, Len(domain)), 1),
        !.height = QSub(Q(height, 1), yScale(dataMax, height, bar.data.value)),
        !.x = xScale(domain, width, bar.data.category),
        !.y = yScale(dataMax, height, bar.data.value),
        !.fill = bar.data.color]

\* bars.exit().remove(), seen from a continuation that holds `live` attached
\* bars: those past the end of the new data leave the document for good
afterExit(entry, dataPoints) ==
    [entry EXCEPT !.live = Min(entry.live, Len(dataPoints)), !.stale = TRUE]

\* the axis space taken whether or not the axis is shown
plotHeight_Always(settings, height) == height - AxisReserve

\* the height left for the bars
plotHeight(settings, height) ==
    IF Truthy(settings.enableAxis.show) THEN height - AxisReserve ELSE height

---------------------------------------------------------------------------
(* Visual.update *)

\* category columns of length n: distinct labels in turn, or one label repeated
CategoriesOfLength(n) ==
    {[k \in 1..n |-> IF k % 2 = 1 THEN Str("A") ELSE Str("B")],
     [k \in 1..n |-> Str("A")]}

\* the value column of length n
ValuesOfLength(n) == [k \in 1..n |-> IF k % 2 = 1 THEN Num(2) ELSE Num(1)]

ShowObjects(show) == [t |-> "object", enableAxis |-> [t |-> "object", show |-> show]]

\* the inputs update is examined on: every table shape with the axis setting
\* untouched, the full table under every axis setting and viewport, and the two
\* kinds of incomplete data (silently empty, and the one that raises)
UpdateInputs ==
    {MkOptions("none", c, ValuesOfLength(n), Num(3), Undefined, vp) :
        c \in UNION {CategoriesOfLength(k) : k \in 0..MaxLen}, n \in 0..MaxLen,
        vp \in Viewports}
    \cup
    {MkOptions("none", [k \in 1..MaxLen |-> IF k % 2 = 1 THEN Str("A") ELSE Str("B")],
               ValuesOfLength(MaxLen), Num(3), ShowObjects(show), vp) :
        show \in {Bool(TRUE), Bool(FALSE), Str("yes")}, vp \in Viewports}
    \cup
    {MkOptions(m, <<Str("A")>>, ValuesOfLength(1), Num(3), ShowObjects(Bool(TRUE)),
               [width |-> 400, height |-> 300]) :
        m \in {"dataViews", "categoriesEmpty"}}

\* everything update does once visualTransform has returned
render(data, width, svgHeight, height, domain, joined) ==
    /\ raised' = FALSE
    /\ chartSettings' = data.settings
    /\ viewModel' = data
    /\ svg' = [width |-> Num(width), height |-> Num(svgHeight)]
    /\ xAxis' = [fontSize |-> Q(Min(height, width) * 4, 100),
                 transform |-> [x |-> 0, y |-> height],
                 ticks |-> axisTicks(domain, width)]
    /\ bars' = [k \in DOMAIN joined |->
                   barAttr(joined[k], domain, data.dataMax, width, height)]
    /\ pending' = [k \in DOMAIN pending |-> afterExit(pending[k], data.dataPoints)]
    /\ UNCHANGED selected

updateWith(opts, data) ==
    /\ options' = opts
    /\ transformedData' = data
    /\ lastCall' = "update"
    /\ returned' = Undefined
    /\ IF data = TypeError
       THEN \* visualTransform threw: update ends before it touches anything
            /\ raised' = TRUE
            /\ UNCHANGED <<chartSettings, svg, xAxis, bars, selected, pending,
                           viewModel>>
       ELSE render(data, opts.viewport.width, opts.viewport.height,
                   plotHeight(data.settings, opts.viewport.height),
                   ordinalDomain(data.dataPoints),
                   dataJoin(bars, data.dataPoints))

Update(opts) == updateWith(opts, visualTransform(opts))

\* the inputs of the interactive sessions: tables of every length with the axis
\* setting untouched, and the data that makes update raise
SessionInputs ==
    {MkOptions("none", [k \in 1..n |-> IF k % 2 = 1 THEN Str("A") ELSE Str("B")],
               ValuesOfLength(n), Num(3), Undefined,
               [width |-> 400, height |-> 300]) : n \in 0..MaxLen}
    \cup
    {MkOptions("categoriesEmpty", <<>>, <<>>, Num(3), Undefined,
               [width |-> 400, height |-> 300])}

---------------------------------------------------------------------------
(* The click handler and its continuation *)

\* the host's selectionManager.select(id): clicking the only selected identity
\* clears the selection, anything else selects that identity alone
select(current, id) == IF current = {id} THEN {} ELSE {id}

\* the click handler on the k-th bar: one select request for the identity of
\* the data point bound to it; the continuation holds the bars of the update
\* that installed the handler (all the bars there are) and the clicked element.
\* `last` marks the request of the most recent click, `stale` one that an
\* update has followed.
onClick(k) ==
    /\ k \in DOMAIN bars
    /\ selected' = select(selected, bars[k].data.selectionID)
    /\ pending' = Append([j \in DOMAIN pending |-> [pending[j] EXCEPT !.last = FALSE]],
                         [count |-> Len(bars),
                          live |-> Len(bars),
                          this |-> k,
                          id |-> bars[k].data.selectionID,
                          ids |-> select(selected, bars[k].data.selectionID),
                          stale |-> FALSE,
                          last |-> TRUE])
    /\ lastCall' = "click"
    /\ returned' = Undefined
    /\ raised' = FALSE
    /\ UNCHANGED <<options, transformedData, chartSettings, svg, xAxis, bars,
                   viewModel>>

\* a click on the k-th bar, with room for one more request in flight
Click(k) ==
    /\ Len(pending) < MaxPending
    /\ onClick(k)

\* a click on the k-th bar in a burst of clicks
ClickInBurst(k) ==
    /\ Len(pending) < MaxBurst
    /\ onClick(k)

\* a continuation that dims only the bars not lit by an earlier response
fillOpacityAfter_KeepLit(bar, j, entry) ==
    IF j > entry.live THEN bar.fillOpacity
    ELSE IF j = entry.this THEN One
    ELSE IF entry.ids # {} /\ bar.fillOpacity # One THEN Half ELSE One

\* the continuation without its second write (the clicked bar is dimmed too)
fillOpacityAfter_NoRestore(bar, j, entry) ==
    IF j > entry.live THEN bar.fillOpacity
    ELSE IF entry.ids # {} THEN Half ELSE One

\* the continuation's two writes, as they land on the bar now at position j:
\* bars.attr('fill-opacity', ...) on the bars it holds, then 1 on the clicked one
fillOpacityAfter(bar, j, entry) ==
    IF j > entry.live THEN bar.fillOpacity
    ELSE IF j = entry.this THEN One
    ELSE IF entry.ids # {} THEN Half ELSE One

\* the elements the continuation's writes go to: every bar it holds, in the
\* document or not (the clicked one is among them)
written(entry) == 1..entry.count

\* the k-th outstanding promise resolves
Then(k) ==
    /\ k \in DOMAIN pending
    /\ bars' = [j \in DOMAIN bars |->
                   [bars[j] EXCEPT !.fillOpacity = fillOpacityAfter(bars[j], j, pending[k])]]
    /\ pending' = [j \in 1..(Len(pending) - 1) |->
                      IF j < k THEN pending[j] ELSE pending[j + 1]]
    /\ lastCall' = "then"
    /\ returned' = Undefined
    /\ raised' = FALSE
    /\ UNCHANGED <<options, transformedData, chartSettings, svg, xAxis, selected,
                   viewModel>>

---------------------------------------------------------------------------
(* Visual.enumerateObjectInstances *)

ObjectNames == {"enableAxis", "colorSelector"}

enumerateObjectInstances(settings, objectName) ==
    IF objectName = "enableAxis"
    THEN IF settings = Undefined
         THEN TypeError   \* this.chartSettings.enableAxis on undefined
         ELSE Arr(<<[objectName |-> Str(objectName),
                     properties |-> [show |-> settings.enableAxis.show],
                     selector |-> Null]>>)
    ELSE Arr(<<>>)

EnumerateObjectInstances(objectName) ==
    /\ returned' = [objectName |-> objectName,
                    value |-> enumerateObjectInstances(chartSettings, objectName)]
    /\ raised' = (enumerateObjectInstances(chartSettings, objectName) = TypeError)
    /\ lastCall' = "enumerateObjectInstances"
    /\ UNCHANGED <<options, transformedData, chartSettings, svg, xAxis, bars,
                   selected, pending, viewModel>>

---------------------------------------------------------------------------
(* Spec: the visual driven by its host and its user *)

Init ==
    /\ options = NotCalled
    /\ transformedData = NotCalled
    /\ Constructed

Next ==
    \/ \E opts \in SessionInputs : Update(opts)
    \/ \E k \in 1..MaxLen : Click(k)
    \/ \E k \in 1..MaxPending : Then(k)
    \/ \E name \in ObjectNames : EnumerateObjectInstances(name)

Spec == Init /\ [][Next]_vars

---------------------------------------------------------------------------
(* SpecBurst: bursts of clicks on a chart, several requests in flight,       *)
(* responses in any order, re-renders at any time                            *)

\* the inputs of the bursts: tables of every length that gives a bar to click
BurstInputs ==
    {MkOptions("none", [k \in 1..n |-> IF k % 2 = 1 THEN Str("A") ELSE Str("B")],
               ValuesOfLength(n), Num(3), Undefined,
               [width |-> 400, height |-> 300]) : n \in 1..MaxLen}

NextBurst ==
    \/ \E opts \in BurstInputs : Update(opts)
    \/ \E k \in 1..MaxLen : ClickInBurst(k)
    \/ \E k \in 1..MaxBurst : Then(k)

SpecBurst == Init /\ [][NextBurst]_vars

---------------------------------------------------------------------------
(* SpecRender: update and the property pane's query, without clicks *)

NextRender ==
    \/ \E opts \in UpdateInputs : Update(opts)
    \/ \E name \in ObjectNames : EnumerateObjectInstances(name)

SpecRender == Init /\ [][NextRender]_vars

---------------------------------------------------------------------------
(* The input of the last call, read piece by piece *)

Called == transformedData # NotCalled

\* some required structural piece of the data is missing from o
MissingPiece(o) ==
    \/ o.dataViews = Undefined
    \/ o.dataViews.a = <<>>
    \/ o.dataViews.a[1].categorical = Undefined
    \/ o.dataViews.a[1].categorical.categories = Undefined
    \/ o.dataViews.a[1].categorical.categories.a = <<>>
    \/ o.dataViews.a[1].categorical.categories.a[1].source = Undefined
    \/ o.dataViews.a[1].categorical.values = Undefined
    \/ o.dataViews.a[1].categorical.values.a = <<>>

WellFormed(o) == ~MissingPiece(o)

InCategories(o) == o.dataViews.a[1].categorical.categories.a[1].values.a
InValues(o) == o.dataViews.a[1].categorical.values.a[1].values.a
InMaxLocal(o) == o.dataViews.a[1].categorical.values.a[1].maxLocal
InObjects(o) == o.dataViews.a[1].metadata.objects

\* the user-set enableAxis.show of o, or "absent" when any step to it is missing
InShow(o) ==
    IF InObjects(o) = Undefined THEN [t |-> "absent"]
    ELSE IF "enableAxis" \notin DOMAIN InObjects(o) THEN [t |-> "absent"]
    ELSE IF "show" \notin DOMAIN InObjects(o).enableAxis THEN [t |-> "absent"]
    ELSE InObjects(o).enableAxis.show

---------------------------------------------------------------------------
(* Claims about visualTransform, checked under SpecT *)

\* C1: whenever a required structural piece of the input is missing, the call
\* raises no error and returns the empty view model (no data points, dataMax 0,
\* enableAxis.show false).
C1_MissingPieceGivesEmptyViewModel ==
    (Called /\ MissingPiece(options)) =>
        /\ transformedData # TypeError
        /\ transformedData.dataPoints = <<>>
        /\ transformedData.dataMax = Num(0)
        /\ transformedData.settings.enableAxis.show = Bool(FALSE)

C3_DataMaxIsReportedMaxLocal ==
    (Called /\ WellFormed(options)) =>
        /\ transformedData # TypeError
        /\ transformedData.dataMax = InMaxLocal(options)

\* C3 witness: the reported maximum is above every value of the column (a stale
\* maximum) and is what the view model carries.
C3_Witness ==
    /\ Called /\ WellFormed(options)
    /\ InValues(options) # <<>>
    /\ transformedData # TypeError
    /\ \A k \in DOMAIN InValues(options) :
          InValues(options)[k].v < transformedData.dataMax.v

\* C4: for a structurally valid table the enableAxis.show lookup raises nothing;
\* it gives the default false when objects, the enableAxis object or its show
\* property is absent or undefined, and the user's boolean (false included)
\* when show is a boolean.
C4_ShowDefaultsWhenAbsent ==
    (Called /\ WellFormed(options)) =>
        /\ transformedData # TypeError
        /\ InShow(options).t \in {"absent", "undefined"} =>
              transformedData.settings.enableAxis.show = Bool(FALSE)
        /\ InShow(options).t = "boolean" =>
              transformedData.settings.enableAxis.show = InShow(options)

\* C4 witness: the user switched the axis on and the lookup returned it.
C4_Witness ==
    /\ Called /\ WellFormed(options)
    /\ InShow(options) = Bool(TRUE)
    /\ transformedData # TypeError
    /\ transformedData.settings.enableAxis.show = Bool(TRUE)

\* C5: a user-set enableAxis.show of the wrong type (not a boolean) falls back
\* to the default in the built settings.
C5_WronglyTypedShowFallsBack ==
    (Called /\ WellFormed(options)
       /\ InShow(options).t \notin {"absent", "undefined", "boolean"}) =>
        /\ transformedData # TypeError
        /\ transformedData.settings.enableAxis.show = Bool(FALSE)

---------------------------------------------------------------------------
(* Claims about update and enumerateObjectInstances, checked under SpecRender *)

\* the last handler was an update that ran to its end
AfterUpdate == lastCall = "update" /\ ~raised

\* C6: in every update the plot height is the viewport height minus exactly 25
\* when enableAxis.show is true (as the `if` of update tests it) and the full
\* viewport height otherwise, over any sequence of updates; the svg element
\* keeps the full viewport width and height.
C6_PlotHeightReservesAxisIffShown ==
    AfterUpdate =>
        /\ svg = [width |-> Num(options.viewport.width),
                  height |-> Num(options.viewport.height)]
        /\ xAxis.transform.y =
              IF Truthy(chartSettings.enableAxis.show)
              THEN options.viewport.height - 25
              ELSE options.viewport.height
        /\ \A k \in DOMAIN bars :
              bars[k].y.t = "number" =>
                 bars[k].height = QSub(Q(xAxis.transform.y, 1), bars[k].y)

\* C6 witness: an update with the axis shown left 275 of the 300 units to the bars.
C6_Witness ==
    /\ AfterUpdate
    /\ chartSettings.enableAxis.show = Bool(TRUE)
    /\ options.viewport.height = 300
    /\ xAxis.transform.y = 275
    /\ bars # <<>>

EffectiveHeight ==
    IF Truthy(viewModel.settings.enableAxis.show)
    THEN svg.height.v - 25 ELSE svg.height.v

\* C8: after any sequence of updates the bars are those of the last completed
\* update's view model and surface size: one bar per data point, bar i bound to
\* dataPoints[i], with width = band width, x = categoryScale(category_i),
\* y = valueScale(value_i), height = effectiveHeight - valueScale(value_i) and
\* fill = color_i.
C8_BarsAreThoseOfLastViewModel ==
    viewModel # NotCalled =>
        /\ Len(bars) = Len(viewModel.dataPoints)
        /\ \A k \in DOMAIN bars :
              LET point == viewModel.dataPoints[k]
                  domain == ordinalDomain(viewModel.dataPoints)
                  y == yScale(viewModel.dataMax, EffectiveHeight, point.value)
              IN  /\ bars[k].data = point
                  /\ bars[k].width = Q(rangeBand(svg.width.v, Len(domain)), 1)
                  /\ bars[k].x = xScale(domain, svg.width.v, point.category)
                  /\ bars[k].y = y
                  /\ bars[k].height = QSub(Q(EffectiveHeight, 1), y)
                  /\ bars[k].fill = point.color

\* C8 witness: two bars side by side after an update, the first two thirds of
\* the plot high (value 2 of a reported maximum 3).
C8_Witness ==
    /\ AfterUpdate
    /\ Len(bars) = 2
    /\ bars[1].x # bars[2].x
    /\ bars[1].height = Q(2 * EffectiveHeight, 3)

\* C10: once an update has been called, enumerateObjectInstances('enableAxis')
\* returns exactly one entry whose show is the enableAxis.show of the settings
\* built by the most recent update (false when that update's data was absent or
\* malformed), and any other name returns an empty list; no error is raised.
C10_EnumerateReturnsLastBuiltShow ==
    (lastCall = "enumerateObjectInstances" /\ options # NotCalled) =>
        /\ ~raised
        /\ IF returned.objectName = "enableAxis"
           THEN /\ returned.value.t = "array"
                /\ Len(returned.value.a) = 1
                /\ returned.value.a[1].properties.show =
                      IF MissingPiece(options) THEN Bool(FALSE)
                      ELSE transformedData.settings.enableAxis.show
           ELSE returned.value = Arr(<<>>)

---------------------------------------------------------------------------
(* Claims about clicks, checked under Spec *)

RemoveAt(seq, k) ==
    [j \in 1..(Len(seq) - 1) |-> IF j < k THEN seq[j] ELSE seq[j + 1]]

\* C9: a click on a bar issues exactly one select request, for the selection
\* identity of the data point bound to that bar; when the result of a request
\* arrives with no update since the click, every bar gets opacity 0.5 if the
\* result is non-empty and 1 if it is empty, and then the clicked bar gets 1.
C9_ClickSelectsAndResultDims ==
    [][/\ Len(pending') > Len(pending) =>
            \E k \in DOMAIN bars :
               /\ Len(pending') = Len(pending) + 1
               /\ \A j \in DOMAIN pending :
                     pending'[j] = [pending[j] EXCEPT !.last = FALSE]
               /\ pending'[Len(pending')].this = k
               /\ pending'[Len(pending')].id = viewModel.dataPoints[k].selectionID
               /\ bars' = bars
       /\ Len(pending') < Len(pending) =>
            \E k \in DOMAIN pending :
               /\ pending' = RemoveAt(pending, k)
               /\ Len(bars') = Len(bars)
               /\ ~pending[k].stale =>
                     \A j \in DOMAIN bars' :
                        bars'[j].fillOpacity =
                           IF j = pending[k].this THEN One
                           ELSE IF pending[k].ids # {} THEN Half ELSE One
      ]_vars

\* C9 witness: a result has arrived; the clicked bar is at 1 and the other at 0.5.
C9_Witness ==
    /\ lastCall = "then"
    /\ Len(bars) = 2
    /\ bars[1].fillOpacity = Half
    /\ bars[2].fillOpacity = One

---------------------------------------------------------------------------
(* Claims about the highlighting across updates, checked under Spec *)

\* the opacity a bar is painted with: full when it has no fill-opacity attribute
Opacity(bar) == IF bar.fillOpacity = Undefined THEN One ELSE bar.fillOpacity

\* C11: immediately after any update completes, the opacities of the bars agree
\* with the host's current selection: with nothing selected every bar is at full
\* opacity, and otherwise the bars at full opacity are exactly those whose bound
\* data point carries a selected identity, all others being at 0.5.
C11_OpacitiesFollowSelectionAfterUpdate ==
    AfterUpdate =>
        \A k \in DOMAIN bars :
           Opacity(bars[k]) =
              IF selected = {} THEN One
              ELSE IF bars[k].data.selectionID \in selected THEN One
              ELSE Half

\* C13: when a select result is processed after a later update and is
\* non-empty, every bar then on the surface other than the clicked one ends at
\* opacity 0.5 (bars created by that update included), and the continuation
\* writes to no bar that the update removed.
C13_LateResultDimsTheBarsNowRendered ==
    [][Len(pending') < Len(pending) =>
          \E k \in DOMAIN pending :
             /\ pending' = RemoveAt(pending, k)
             /\ (pending[k].stale /\ pending[k].ids # {}) =>
                   /\ \A j \in DOMAIN bars' :
                         (j # pending[k].this \/ pending[k].this > pending[k].live)
                            => Opacity(bars'[j]) = Half
                   /\ written(pending[k]) \subseteq 1..pending[k].live
      ]_vars

---------------------------------------------------------------------------
(* A claim about bursts of clicks, checked under SpecBurst *)

\* C12: every click issues its own select request at once, whatever is already
\* in flight; and when the response of the last click is the last one processed
\* (as it is whenever responses come in the order of the clicks) with no update
\* since that click, then once nothing is pending the opacities are those of the
\* last click's result: the last clicked bar at 1 and all others at 0.5 if the
\* result is non-empty, all bars at 1 if it is empty.
C12_InOrderResponsesEndOnLastClick ==
    [][/\ Len(pending') > Len(pending) =>
            /\ Len(pending') = Len(pending) + 1
            /\ pending'[Len(pending')].last
            /\ \E k \in DOMAIN bars :
                  /\ pending'[Len(pending')].this = k
                  /\ pending'[Len(pending')].id = bars[k].data.selectionID
                  /\ pending'[Len(pending')].ids = select(selected, bars[k].data.selectionID)
                  /\ selected' = pending'[Len(pending')].ids
            /\ \A j \in DOMAIN pending :
                  pending'[j] = [pending[j] EXCEPT !.last = FALSE]
       /\ (Len(pending) = 1 /\ pending' = <<>>
             /\ pending[1].last /\ ~pending[1].stale) =>
            /\ Len(bars') = Len(bars)
            /\ \A j \in DOMAIN bars' :
                  bars'[j].fillOpacity =
                     IF pending[1].ids = {} THEN One
                     ELSE IF j = pending[1].this THEN One ELSE Half
      ]_vars

\* C12 witness: two requests were in flight with no update since; the response
\* of the first click (on bar 1) has been processed and dimmed bar 2, and the
\* response of the last click (on bar 2) is the one still to come.
C12_Witness ==
    /\ lastCall = "then"
    /\ Len(bars) = 2
    /\ bars[1].fillOpacity = One
    /\ bars[2].fillOpacity = Half
    /\ Len(pending) = 1
    /\ pending[1].last /\ ~pending[1].stale
    /\ pending[1].this = 2
    /\ pending[1].ids # {}

---------------------------------------------------------------------------
(* A claim about the property pane's query, checked under SpecRender *)

\* C14: enumerateObjectInstances raises no error in any reachable state; called
\* after construction and before the first update it returns the default
\* show = false for 'enableAxis' and an empty list for any other name.
C14_EnumerateNeverRaises ==
    lastCall = "enumerateObjectInstances" =>
        /\ ~raised
        /\ options = NotCalled =>
              IF returned.objectName = "enableAxis"
              THEN /\ returned.value.t = "array"
                   /\ Len(returned.value.a) = 1
                   /\ returned.value.a[1].properties.show = Bool(FALSE)
              ELSE returned.value = Arr(<<>>)

====
